---------------------------- MODULE Spec2Model ----------------------------
(***************************************************************************)
(* Model of app.py: the Streamlit data-integrity checker.                  *)
(*                                                                         *)
(*   - read_csv / deterministic_hash_dataframe: the canonical fingerprint  *)
(*     of an uploaded CSV file (column sort, row sort, to_csv, sha256).    *)
(*   - anchor_hash / verify_hash and the three button handlers, run by     *)
(*     concurrent browser sessions against one wallet and one contract.    *)
(*                                                                         *)
(* A CSV file is a header (sequence of names) and data lines (sequences of *)
(* unquoted field tokens).  A DataFrame cell is a record [k, n, s]:        *)
(* k = "nan" | "num" | "str"; n the numeric value; s the string value, or  *)
(* for a number the sign "-" of a negative zero.                           *)
(* sha256 is modelled as a collision-free tagging of its input text.       *)
(***************************************************************************)
EXTENDS Integers, Sequences, FiniteSets

(***************************************************************************)
(* Scalars                                                                 *)
(***************************************************************************)
NaN == [k |-> "nan", n |-> 0, s |-> ""]

Num(n, sign) == [k |-> "num", n |-> n, s |-> sign]

Str(t) == [k |-> "str", n |-> 0, s |-> t]

\* Field tokens of the modelled CSV files ("" is the empty field).
Tokens == {"", "-0.0", "0.0", "1", "x"}

NumericTokens == {"-0.0", "0.0", "1"}

FloatTokens == {"-0.0", "0.0"}

\* pandas' number parser on the numeric tokens.
ParseNum(tok) ==
    CASE tok = "-0.0" -> Num(0, "-")
      [] tok = "0.0"  -> Num(0, "")
      [] tok = "1"    -> Num(1, "")
      [] OTHER        -> NaN

\* Decimal text of a small natural number.
IntText(n) ==
    CASE n = 0 -> "0" [] n = 1 -> "1" [] n = 2 -> "2" [] n = 3 -> "3"
      [] n = 4 -> "4" [] n = 5 -> "5" [] n = 6 -> "6" [] n = 7 -> "7"
      [] n = 8 -> "8" [] n = 9 -> "9" [] OTHER -> "#"

\* Python's str ordering on the column names read_csv can produce here.
NameRank(name) ==
    CASE name = "a"   -> 1 [] name = "a.1" -> 2 [] name = "a.2" -> 3
      [] name = "a.3" -> 4 [] name = "b"   -> 5 [] name = "b.1" -> 6
      [] name = "b.2" -> 7 [] name = "b.3" -> 8 [] OTHER -> 9

\* Python's str ordering on the field tokens (code points: - 0 1 x).
StrRank(t) ==
    CASE t = "-0.0" -> 1 [] t = "0.0" -> 2 [] t = "1" -> 3 [] t = "x" -> 4
      [] OTHER -> 0

Max(m, n) == IF m >= n THEN m ELSE n

\* The sequence f[1], ..., f[n] with every element evaluated.
Tuple(f, n) == SubSeq(f, 1, n)

(***************************************************************************)
(* pd.read_csv (C parser, default options)                                 *)
(***************************************************************************)
\* skip_blank_lines: a line holding one empty field is an empty line.
NonBlank(line) == line # <<"">> /\ line # <<>>

\* mangle_dupe_cols: the c-th repeat of a name becomes name.c
MangledName(header, j) ==
    LET c == Cardinality({i \in 1..(j - 1) : header[i] = header[j]})
    IN  IF c = 0 THEN header[j] ELSE header[j] \o "." \o IntText(c)

\* Width of the table: the header's, or the first data line's when longer
\* (its extra leading fields become the index).
TableWidth(header, body) ==
    IF body = <<>> THEN Len(header) ELSE Max(Len(header), Len(body[1]))

\* A later line longer than the table is a tokenizing error.
TooManyFields(header, body) ==
    \E i \in 2..Len(body) : Len(body[i]) > TableWidth(header, body)

\* Missing trailing fields are filled with empty fields.
Padded(line, width) ==
    Tuple([j \in 1..width |-> IF j <= Len(line) THEN line[j] ELSE ""], width)

\* dtype inference of one field position over the padded lines.
InferDtype(lines, j) ==
    IF lines = <<>> THEN "object"
    ELSE IF \E i \in 1..Len(lines) : lines[i][j] \notin NumericTokens \cup {""}
         THEN "object"
    ELSE IF \E i \in 1..Len(lines) : lines[i][j] \in FloatTokens \cup {""}
         THEN "float64"
    ELSE "int64"

ParseCell(tok, dtype) ==
    IF tok = "" THEN NaN
    ELSE IF dtype = "object" THEN Str(tok)
    ELSE ParseNum(tok)

\* The DataFrame of a file, or the parser's error.
read_csv(file) ==
    LET header == file.header
        body   == SelectSeq(file.rows, NonBlank)
        width  == TableWidth(header, body)
        lead   == width - Len(header)
        lines  == Tuple([i \in 1..Len(body) |-> Padded(body[i], width)], Len(body))
        dtype  == Tuple([j \in 1..width |-> InferDtype(lines, j)], width)
    IN  IF TooManyFields(header, body)
        THEN [ok |-> FALSE, err |-> "ParserError"]
        ELSE [ok      |-> TRUE,
              columns |-> Tuple([j \in 1..Len(header) |-> MangledName(header, j)],
                                Len(header)),
              dtypes  |-> SubSeq(dtype, lead + 1, width),
              rows    |-> Tuple([i \in 1..Len(lines) |->
                                   Tuple([j \in 1..Len(header) |->
                                            ParseCell(lines[i][lead + j],
                                                      dtype[lead + j])],
                                         Len(header))],
                                Len(lines)),
              index   |-> Tuple([i \in 1..Len(lines) |->
                                   Tuple([j \in 1..lead |->
                                            ParseCell(lines[i][j], dtype[j])],
                                         lead)],
                                Len(lines))]

(***************************************************************************)
(* deterministic_hash_dataframe                                            *)
(***************************************************************************)
\* Position in df.columns of the p-th name of sorted(df.columns).
SortedColumn(columns, p) ==
    CHOOSE j \in 1..Len(columns) :
        Cardinality({i \in 1..Len(columns) :
                        NameRank(columns[i]) < NameRank(columns[j])}) = p - 1

\* df.reindex(sorted(df.columns), axis=1)
reindex(df) ==
    LET w     == Len(df.columns)
        order == Tuple([p \in 1..w |-> SortedColumn(df.columns, p)], w)
    IN  [df EXCEPT
           !.columns = Tuple([p \in 1..w |-> df.columns[order[p]]], w),
           !.dtypes  = Tuple([p \in 1..w |-> df.dtypes[order[p]]], w),
           !.rows    = Tuple([i \in 1..Len(df.rows) |->
                                Tuple([p \in 1..w |-> df.rows[i][order[p]]], w)],
                             Len(df.rows))]

\* sort_values(..., na_position='first'): missing values ahead of the others.
CellLess_NaFirst(c1, c2) ==
    IF c2.k = "nan" THEN FALSE
    ELSE IF c1.k = "nan" THEN TRUE
    ELSE IF c1.k = "num" THEN c1.n < c2.n
    ELSE StrRank(c1.s) < StrRank(c2.s)

\* Order of two cells of one column under sort_values' defaults
\* (ascending, na_position='last').
CellLess(c1, c2) ==
    IF c1.k = "nan" THEN FALSE
    ELSE IF c2.k = "nan" THEN TRUE
    ELSE IF c1.k = "num" THEN c1.n < c2.n
    ELSE StrRank(c1.s) < StrRank(c2.s)

\* Two cells the sort cannot tell apart: both missing, or equal values
\* (0.0 and -0.0 compare equal).
CellTie(c1, c2) ==
    IF c1.k = "nan" \/ c2.k = "nan" THEN c1.k = c2.k
    ELSE IF c1.k = "num" THEN c1.n = c2.n
    ELSE c1.s = c2.s

\* Lexicographic order of two rows over all columns, left to right.
RowLess(r1, r2) ==
    \E j \in 1..Len(r1) :
        /\ CellLess(r1[j], r2[j])
        /\ \A i \in 1..(j - 1) : CellTie(r1[i], r2[i])

RowTie(r1, r2) == \A j \in 1..Len(r1) : CellTie(r1[j], r2[j])

\* Rows that precede row i in the sorted frame; ties keep their input order.
RowsBefore(rows, i) ==
    {h \in 1..Len(rows) :
        \/ RowLess(rows[h], rows[i])
        \/ RowTie(rows[h], rows[i]) /\ h < i}

\* df.sort_values(by=list(df.columns)).reset_index(drop=True)
sort_values(df) ==
    LET n     == Len(df.rows)
        before == Tuple([i \in 1..n |-> Cardinality(RowsBefore(df.rows, i))], n)
        order == Tuple([p \in 1..n |-> CHOOSE i \in 1..n : before[i] = p - 1], n)
    IN  [df EXCEPT !.rows  = Tuple([p \in 1..n |-> df.rows[order[p]]], n),
                   !.index = Tuple([p \in 1..n |-> <<>>], n)]

\* Text of one cell as to_csv writes it.
CellText(c, dtype) ==
    IF c.k = "nan" THEN ""
    ELSE IF c.k = "str" THEN c.s
    ELSE IF dtype = "int64" THEN IntText(c.n)
    ELSE c.s \o IntText(c.n) \o ".0"

RECURSIVE JoinFields(_)
JoinFields(fields) ==
    IF fields = <<>> THEN ""
    ELSE IF Len(fields) = 1 THEN fields[1]
    ELSE fields[1] \o "," \o JoinFields(Tail(fields))

\* One line of csv.writer: a lone empty field is written quoted.
CsvLine(fields) ==
    IF fields = <<"">> THEN "\"\"\n" ELSE JoinFields(fields) \o "\n"

RECURSIVE ConcatLines(_)
ConcatLines(lines) ==
    IF lines = <<>> THEN "" ELSE lines[1] \o ConcatLines(Tail(lines))

\* df.to_csv(index=False)
to_csv(df) ==
    LET w == Len(df.columns)
        n == Len(df.rows)
    IN  CsvLine(df.columns) \o
        ConcatLines(Tuple([i \in 1..n |->
                             CsvLine(Tuple([j \in 1..w |->
                                              CellText(df.rows[i][j], df.dtypes[j])],
                                           w))],
                          n))

\* The canonical form: columns sorted, rows sorted, serialised.
canonicalize(df) == to_csv(sort_values(reindex(df)))

\* hashlib.sha256(text).hexdigest(), collision-free.
sha256_hexdigest(text) == "sha256:" \o text

deterministic_hash_dataframe(df) == sha256_hexdigest(canonicalize(df))

(***************************************************************************)
(* State                                                                   *)
(***************************************************************************)
VARIABLES
    config,         \* the four options of secrets.env: "ok" | "missing" | "malformed"
    proc,           \* "boot" | "running" | "config_error"
    uploaded_file,  \* per session: the file in the uploader (NoFile when empty)
    dataset_hash,   \* per session: the displayed SHA-256 ("" when none)
    pc,             \* per session: "idle" | "built" | "wait" inside anchor_hash
    nonce,          \* per session: anchor_hash's local nonce
    receipt,        \* per session: status of the receipt it waits for
    ledger,         \* the contract's storage: dataset name -> hash string
    txcount,        \* transactions of WALLET_ADDRESS mined so far
    pending,        \* transactions accepted by the node, not yet mined
    last,           \* what the most recent handler run returned and showed
    roundtrip,      \* per session: history of its latest anchor (see Mine)
    cstage,         \* canonicalisation check: "file" | "loaded" | "hashed" | "error"
    cfile,          \* the file under check
    cdf,            \* its DataFrame
    pdf,            \* a row/column permutation of cdf
    df2,            \* cdf with columns and rows sorted (to_csv's input)
    chash,          \* deterministic_hash_dataframe(cdf)
    phash           \* deterministic_hash_dataframe(pdf)

protocolVars == <<config, proc, uploaded_file, dataset_hash, pc, nonce, receipt,
                  ledger, txcount, pending, last, roundtrip>>

canonVars == <<cstage, cfile, cdf, pdf, df2, chash, phash>>

vars == <<protocolVars, canonVars>>

(***************************************************************************)
(* Bounds and input sets                                                   *)
(***************************************************************************)
\* Most data lines of a file of the canonicalisation check.
MaxRows == 2

\* Most transactions the wallet gets mined in one run.
MaxTx == 2

Sessions == {"s1", "s2"}

ConfigValues == {"ok", "missing", "malformed"}

File(header, rows) == [header |-> header, rows |-> rows]

NoFile == File(<<>>, <<>>)

EmptyFrame == [ok |-> TRUE, columns |-> <<>>, dtypes |-> <<>>, rows |-> <<>>,
               index |-> <<>>]

\* Rectangular files with distinct column names, up to MaxRows data lines.
CanonHeaders == {<<"a">>, <<"b", "a">>}

RowsOf(width, n) == [1..n -> [1..width -> Tokens]]

CanonFiles ==
    UNION {{File(h, r) : r \in UNION {RowsOf(Len(h), n) : n \in 0..MaxRows}} :
             h \in CanonHeaders}

Orderings(n) ==
    {p \in [1..n -> 1..n] : \A i, j \in 1..n : p[i] = p[j] => i = j}

\* df with its rows taken in order rp and its columns in order cp.
Permuted(df, rp, cp) ==
    LET w == Len(df.columns)
        n == Len(df.rows)
    IN  [df EXCEPT
           !.columns = Tuple([j \in 1..w |-> df.columns[cp[j]]], w),
           !.dtypes  = Tuple([j \in 1..w |-> df.dtypes[cp[j]]], w),
           !.rows    = Tuple([i \in 1..n |->
                                Tuple([j \in 1..w |-> df.rows[rp[i]][cp[j]]], w)],
                             n)]

(***************************************************************************)
(* The canonicalisation on its own: load a file, hash it and a permutation *)
(***************************************************************************)
\* History of a session's latest anchor: "mined" when its transaction has been
\* mined, "returned" when anchor_hash has then returned the receipt, "none"
\* before that and again once another write, upload or anchor has followed.
NoAnchor == [stage |-> "none", status |-> "none"]

\* Before the script has run: nothing uploaded, nothing sent, an empty ledger.
IdleProtocol ==
    /\ proc = "boot"
    /\ uploaded_file = [s \in Sessions |-> NoFile]
    /\ dataset_hash = [s \in Sessions |-> ""]
    /\ pc = [s \in Sessions |-> "idle"]
    /\ nonce = [s \in Sessions |-> 0]
    /\ receipt = [s \in Sessions |-> "none"]
    /\ ledger = <<>>
    /\ txcount = 0
    /\ pending = {}
    /\ roundtrip = [s \in Sessions |-> NoAnchor]

NoEvent ==
    [op |-> "none", sess |-> "", err |-> "", receipt |-> "none", calls |-> {},
     verified |-> FALSE, onchain |-> "", local |-> "", eda |-> FALSE, msg |-> ""]

IdleCanon ==
    /\ cstage = "file"
    /\ cdf = EmptyFrame
    /\ pdf = EmptyFrame
    /\ df2 = EmptyFrame
    /\ chash = ""
    /\ phash = ""

AllOk == [RPC_URL |-> "ok", PRIVATE_KEY |-> "ok",
          WALLET_ADDRESS |-> "ok", CONTRACT_ADDRESS |-> "ok"]

InitCanon ==
    /\ config = AllOk
    /\ IdleProtocol
    /\ last = NoEvent
    /\ IdleCanon
    /\ cfile \in CanonFiles

\* df = pd.read_csv(uploaded_file)
LoadCsv ==
    /\ cstage = "file"
    /\ LET r == read_csv(cfile)
       IN  IF r.ok
           THEN /\ cstage' = "loaded"
                /\ cdf' = r
                /\ pdf' = r
           ELSE /\ cstage' = "error"
                /\ UNCHANGED <<cdf, pdf>>
    /\ UNCHANGED <<cfile, df2, chash, phash, protocolVars>>

\* The same dataset with its rows and columns in another order.
Permute ==
    /\ cstage = "loaded"
    /\ \E rp \in Orderings(Len(cdf.rows)), cp \in Orderings(Len(cdf.columns)) :
          pdf' = Permuted(cdf, rp, cp)
    /\ cstage' = "permuted"
    /\ UNCHANGED <<cfile, cdf, df2, chash, phash, protocolVars>>

\* deterministic_hash_dataframe on the frame and on its permutation.
HashFrames ==
    /\ cstage \in {"loaded", "permuted"}
    /\ df2' = sort_values(reindex(cdf))
    /\ chash' = deterministic_hash_dataframe(cdf)
    /\ phash' = deterministic_hash_dataframe(pdf)
    /\ cstage' = "hashed"
    /\ UNCHANGED <<cfile, cdf, pdf, protocolVars>>

NextCanon == LoadCsv \/ Permute \/ HashFrames

SpecCanon == InitCanon /\ [][NextCanon]_vars

\* The same without the permutation: one file, loaded and hashed.
NextSort == LoadCsv \/ HashFrames

SpecSort == InitCanon /\ [][NextSort]_vars

(***************************************************************************)
(* Claims about the canonical form                                         *)
(***************************************************************************)
\* C3: canonicalisation is order-invariant: the digest of any row and column
\* permutation of a dataset equals the digest of the dataset.
C3_OrderInvariant == cstage = "hashed" => phash = chash

IsNull(c) == c.k = "nan"

\* Rows i, j of the sorted frame hold a null and a non-null value in the
\* first sorted column.
NullAndValue(i, j) ==
    /\ Len(df2.columns) > 0
    /\ i \in 1..Len(df2.rows)
    /\ j \in 1..Len(df2.rows)
    /\ IsNull(df2.rows[i][1])
    /\ ~IsNull(df2.rows[j][1])

\* C10 as written: in the canonical form the row holding a null in the first
\* sorted column precedes every row holding a value there.
C10_NullsFirst ==
    cstage = "hashed" =>
        \A i, j \in 1..Len(df2.rows) : NullAndValue(i, j) => i < j

\* The order the canonical form is claimed to follow within one column:
\* numbers by value, strings by code point, nulls after every value.
ValueBefore(c1, c2) ==
    /\ ~IsNull(c1)
    /\ \/ IsNull(c2)
       \/ c1.k = "num" /\ c2.k = "num" /\ c1.n < c2.n
       \/ c1.k = "str" /\ c2.k = "str" /\ StrRank(c1.s) < StrRank(c2.s)

\* Row r2 is strictly ahead of row r1 in the lexicographic order of ValueBefore.
TupleBefore(r2, r1) ==
    \E j \in 1..Len(r1) :
        /\ ValueBefore(r2[j], r1[j])
        /\ \A h \in 1..(j - 1) : ~ValueBefore(r1[h], r2[h]) /\ ~ValueBefore(r2[h], r1[h])

\* C10 amended: columns ascend by name, rows ascend by the full row tuple, and
\* in each sort column nulls sort after all non-null values, so the row holding
\* a null in the first sorted column follows every row holding a value there.
C10_NullsLast ==
    cstage = "hashed" =>
        /\ \A p, q \in 1..Len(df2.columns) :
              p < q => NameRank(df2.columns[p]) < NameRank(df2.columns[q])
        /\ \A i, j \in 1..Len(df2.rows) :
              i < j => ~TupleBefore(df2.rows[j], df2.rows[i])
        /\ \A i, j \in 1..Len(df2.rows) : NullAndValue(i, j) => j < i

\* C10 witness: a sorted frame of two columns with a null and a value in the first.
C10_Witness ==
    /\ cstage = "hashed"
    /\ Len(df2.columns) = 2
    /\ \E i, j \in 1..Len(df2.rows) : NullAndValue(i, j)

(***************************************************************************)
(* Sample uploads of the protocol runs                                     *)
(***************************************************************************)
\* b,a / 1,x : an integer column and a string column.
Sales == File(<<"b", "a">>, << <<"1", "x">> >>)

\* a / 0.0 / 1 : another dataset.
Other == File(<<"a">>, << <<"0.0">>, <<"1">> >>)

\* a,b / ,x : the first numeric column (all missing) starts with a null.
NullFirst == File(<<"a", "b">>, << <<"", "x">> >>)

\* a / x : no numeric column.
NoNumber == File(<<"a">>, << <<"x">> >>)

\* a,a / 1,x : a repeated column name.
DupNames == File(<<"a", "a">>, << <<"1", "x">> >>)

\* a,b / 1,x / 1 : a short second line.
ShortRow == File(<<"a", "b">>, << <<"1", "x">>, <<"1">> >>)

\* a / 1 / 1,x : a long second line.
LongRow == File(<<"a">>, << <<"1">>, <<"1", "x">> >>)

\* a / x,1 : a long first line, whose first field becomes the index.
LongFirst == File(<<"a">>, << <<"x", "1">> >>)

Datasets == {Sales, Other}

SampleFiles == {Sales, Other, NullFirst, NoNumber, DupNames, ShortRow, LongRow,
                LongFirst}

\* Duplicate column names, or lines whose length differs from the header's.
Malformed(file) ==
    \/ \E i, j \in 1..Len(file.header) : i # j /\ file.header[i] = file.header[j]
    \/ \E i \in 1..Len(file.rows) : Len(file.rows[i]) # Len(file.header)

(***************************************************************************)
(* The ledger contract (ABI: storeHash, getHash) and the node              *)
(***************************************************************************)
\* storeHash(datasetName, hashValue): store or overwrite.
storeHash(store, datasetName, hashValue) ==
    [n \in DOMAIN store \cup {datasetName} |->
        IF n = datasetName THEN hashValue ELSE store[n]]

\* getHash(datasetName): the stored string, or the empty string.
getHash(store, datasetName) ==
    IF datasetName \in DOMAIN store THEN store[datasetName] ELSE ""

\* Every RPC needs the endpoint of RPC_URL.
Connected == config.RPC_URL = "ok"

(***************************************************************************)
(* Handlers                                                                *)
(***************************************************************************)
Event(op, s) == [NoEvent EXCEPT !.op = op, !.sess = s]

\* Lines 9-16: secrets.env is read; only the two addresses are checked, by
\* Web3.to_checksum_address.  RPC_URL and PRIVATE_KEY are taken as they are.
Startup ==
    /\ proc = "boot"
    /\ proc' = IF config.WALLET_ADDRESS = "ok" /\ config.CONTRACT_ADDRESS = "ok"
               THEN "running" ELSE "config_error"
    /\ UNCHANGED <<config, uploaded_file, dataset_hash, pc, nonce, receipt, ledger,
                   txcount, pending, last, roundtrip, canonVars>>

\* Lines 99-107: a file is uploaded, read and hashed.
Upload(s, f) ==
    /\ proc = "running"
    /\ pc[s] = "idle"
    /\ uploaded_file' = [uploaded_file EXCEPT ![s] = f]
    /\ LET df == read_csv(f)
       IN  IF df.ok
           THEN /\ dataset_hash' =
                       [dataset_hash EXCEPT ![s] = deterministic_hash_dataframe(df)]
                /\ last' = [Event("upload", s) EXCEPT
                              !.local = deterministic_hash_dataframe(df)]
           ELSE /\ dataset_hash' = [dataset_hash EXCEPT ![s] = ""]
                /\ last' = [Event("upload", s) EXCEPT !.err = df.err]
    /\ roundtrip' = [roundtrip EXCEPT ![s] = NoAnchor]
    /\ UNCHANGED <<config, proc, pc, nonce, receipt, ledger, txcount, pending,
                   canonVars>>

\* storeHash(hash_value, dataset_name): the two arguments swapped.
build_transaction_Swapped(dataset_name, hash_value, n) ==
    [nonce |-> n, name |-> hash_value, value |-> dataset_name]

\* contract.functions.storeHash(dataset_name, hash_value) with the nonce read.
build_transaction(dataset_name, hash_value, n) ==
    [nonce |-> n, name |-> dataset_name, value |-> hash_value]

\* Lines 112-113, 56: the Anchor button; anchor_hash reads the nonce.
AnchorClick(s) ==
    /\ proc = "running"
    /\ pc[s] = "idle"
    /\ dataset_hash[s] # ""
    /\ txcount < MaxTx
    /\ roundtrip' = [roundtrip EXCEPT ![s] = NoAnchor]
    /\ IF Connected
       THEN /\ nonce' = [nonce EXCEPT ![s] = txcount]
            /\ pc' = [pc EXCEPT ![s] = "built"]
            /\ UNCHANGED last
       ELSE /\ last' = [Event("anchor", s) EXCEPT
                          !.err = "ConnectionError",
                          !.calls = {"get_transaction_count"},
                          !.local = dataset_hash[s]]
            /\ UNCHANGED <<nonce, pc>>
    /\ UNCHANGED <<config, proc, uploaded_file, dataset_hash, receipt, ledger,
                   txcount, pending, canonVars>>

\* Lines 57-65: the transaction is built, signed and sent.  The node refuses
\* a nonce already mined or already taken by a pending transaction.
AnchorSend(s) ==
    /\ pc[s] = "built"
    /\ LET tx == build_transaction("sales_data", dataset_hash[s], nonce[s])
           sent == [from |-> s, nonce |-> tx.nonce, name |-> tx.name,
                    value |-> tx.value]
       IN  IF config.PRIVATE_KEY # "ok"
           THEN /\ last' = [Event("anchor", s) EXCEPT
                              !.err = "SigningError",
                              !.calls = {"get_transaction_count"},
                              !.local = dataset_hash[s]]
                /\ pc' = [pc EXCEPT ![s] = "idle"]
                /\ UNCHANGED pending
           ELSE IF tx.nonce < txcount \/ \E p \in pending : p.nonce = tx.nonce
           THEN /\ last' = [Event("anchor", s) EXCEPT
                              !.err = "NonceError",
                              !.calls = {"get_transaction_count",
                                         "send_raw_transaction"},
                              !.local = dataset_hash[s]]
                /\ pc' = [pc EXCEPT ![s] = "idle"]
                /\ UNCHANGED pending
           ELSE /\ pending' = pending \cup {sent}
                /\ pc' = [pc EXCEPT ![s] = "wait"]
                /\ UNCHANGED last
    /\ UNCHANGED <<config, proc, uploaded_file, dataset_hash, nonce, receipt, ledger,
                   txcount, roundtrip, canonVars>>

\* The network mines a pending transaction: the call succeeds and stores the
\* value, or reverts and stores nothing.  Either way a receipt exists.
Mine(tx, status) ==
    /\ tx \in pending
    /\ pending' = pending \ {tx}
    /\ txcount' = txcount + 1
    /\ ledger' = IF status = "success"
                 THEN storeHash(ledger, tx.name, tx.value) ELSE ledger
    /\ receipt' = IF pc[tx.from] = "wait"
                  THEN [receipt EXCEPT ![tx.from] = status] ELSE receipt
    /\ roundtrip' =
          [s \in Sessions |->
              IF s = tx.from
              THEN (IF pc[s] = "wait"
                    THEN [stage |-> "mined", status |-> status]
                    ELSE roundtrip[s])
              ELSE (IF status = "success" THEN NoAnchor ELSE roundtrip[s])]
    /\ UNCHANGED <<config, proc, uploaded_file, dataset_hash, pc, nonce, last,
                   canonVars>>

\* Lines 66-67, 114: wait_for_transaction_receipt returns the receipt and the
\* handler reports success.  The receipt's status is not looked at.
AnchorReceipt(s) ==
    /\ pc[s] = "wait"
    /\ receipt[s] # "none"
    /\ last' = [Event("anchor", s) EXCEPT
                  !.receipt = receipt[s],
                  !.calls = {"get_transaction_count", "send_raw_transaction",
                             "get_transaction_receipt"},
                  !.local = dataset_hash[s],
                  !.msg = "Anchored successfully"]
    /\ pc' = [pc EXCEPT ![s] = "idle"]
    /\ receipt' = [receipt EXCEPT ![s] = "none"]
    /\ roundtrip' = [roundtrip EXCEPT
                       ![s] = IF roundtrip[s].stage = "mined"
                              THEN [roundtrip[s] EXCEPT !.stage = "returned"]
                              ELSE NoAnchor]
    /\ UNCHANGED <<config, proc, uploaded_file, dataset_hash, nonce, ledger, txcount,
                   pending, canonVars>>

\* Line 66: wait_for_transaction_receipt gives up (TimeExhausted) while the
\* transaction is still pending; the transaction stays with the node.
AnchorTimeout(s) ==
    /\ pc[s] = "wait"
    /\ receipt[s] = "none"
    /\ last' = [Event("anchor", s) EXCEPT
                  !.err = "TimeExhausted",
                  !.calls = {"get_transaction_count", "send_raw_transaction",
                             "get_transaction_receipt"},
                  !.local = dataset_hash[s]]
    /\ pc' = [pc EXCEPT ![s] = "idle"]
    /\ UNCHANGED <<config, proc, uploaded_file, dataset_hash, nonce, receipt, ledger,
                   txcount, pending, roundtrip, canonVars>>

\* verify_hash always answering "verified".
verify_hash_AlwaysTrue(store, dataset_name, local_hash) ==
    <<TRUE, getHash(store, dataset_name)>>

\* Lines 70-72.
verify_hash(store, dataset_name, local_hash) ==
    <<getHash(store, dataset_name) = local_hash, getHash(store, dataset_name)>>

\* Lines 116-128: the Verify button; the Mini-EDA is shown on a match.
Verify(s) ==
    /\ proc = "running"
    /\ pc[s] = "idle"
    /\ dataset_hash[s] # ""
    /\ IF Connected
       THEN LET r == verify_hash(ledger, "sales_data", dataset_hash[s])
            IN  last' = [Event("verify", s) EXCEPT
                           !.calls = {"getHash"},
                           !.local = dataset_hash[s],
                           !.verified = r[1],
                           !.onchain = r[2],
                           !.eda = r[1],
                           !.msg = IF r[1] THEN "Integrity verified" ELSE "Mismatch"]
       ELSE last' = [Event("verify", s) EXCEPT
                       !.err = "ConnectionError",
                       !.calls = {"getHash"},
                       !.local = dataset_hash[s]]
    /\ UNCHANGED <<config, proc, uploaded_file, dataset_hash, pc, nonce, receipt,
                   ledger, txcount, pending, roundtrip, canonVars>>

\* Line 133: the first column of df, in its own order, with a numeric dtype
\* (0 when there is none).
first_num_col(df) ==
    IF \E j \in 1..Len(df.columns) : df.dtypes[j] # "object"
    THEN CHOOSE j \in 1..Len(df.columns) :
            /\ df.dtypes[j] # "object"
            /\ \A i \in 1..(j - 1) : df.dtypes[i] = "object"
    ELSE 0

\* Rows df.loc[0, ...] selects: position 0 of a RangeIndex, or the rows whose
\* (first-level) index label equals 0.
RowsLabelled0(df) ==
    {i \in 1..Len(df.rows) :
        IF df.index[i] = <<>> THEN i = 1
        ELSE df.index[i][1].k = "num" /\ df.index[i][1].n = 0}

\* x + 1 on a cell: a missing value stays missing.
PlusOne(c) == IF c.k = "num" THEN Num(c.n + 1, "") ELSE c

\* Lines 132-135: df_tampered.
Tampered(df) ==
    LET c == first_num_col(df)
        n == Len(df.rows)
    IN  IF c = 0 THEN df
        ELSE [df EXCEPT
                !.rows = Tuple([i \in 1..n |->
                                  IF i \in RowsLabelled0(df)
                                  THEN [df.rows[i] EXCEPT ![c] = PlusOne(df.rows[i][c])]
                                  ELSE df.rows[i]],
                               n)]

\* Lines 130-140: the Tamper Demo button.
TamperDemo(s) ==
    /\ proc = "running"
    /\ pc[s] = "idle"
    /\ dataset_hash[s] # ""
    /\ LET df == read_csv(uploaded_file[s])
           tampered_hash == deterministic_hash_dataframe(Tampered(df))
           r == verify_hash(ledger, "sales_data", tampered_hash)
       IN  IF first_num_col(df) # 0 /\ RowsLabelled0(df) = {}
           THEN last' = [Event("tamper", s) EXCEPT !.err = "KeyError"]
           ELSE IF ~Connected
           THEN last' = [Event("tamper", s) EXCEPT
                           !.err = "ConnectionError",
                           !.calls = {"getHash"},
                           !.local = tampered_hash]
           ELSE last' = [Event("tamper", s) EXCEPT
                           !.calls = {"getHash"},
                           !.local = tampered_hash,
                           !.verified = r[1],
                           !.onchain = r[2],
                           !.msg = IF r[1] THEN "" ELSE "Tampered dataset failed verification"]
    /\ UNCHANGED <<config, proc, uploaded_file, dataset_hash, pc, nonce, receipt,
                   ledger, txcount, pending, roundtrip, canonVars>>

(***************************************************************************)
(* Specifications of the protocol                                          *)
(***************************************************************************)
Configs == [RPC_URL : ConfigValues, PRIVATE_KEY : ConfigValues,
            WALLET_ADDRESS : ConfigValues, CONTRACT_ADDRESS : ConfigValues]

InitWith(cfgs) ==
    /\ config \in cfgs
    /\ IdleProtocol
    /\ last = NoEvent
    /\ IdleCanon
    /\ cfile = NoFile

\* Two sessions share the wallet and anchor two datasets.
Init == InitWith({AllOk})

Next ==
    \/ Startup
    \/ \E s \in Sessions, f \in Datasets : Upload(s, f)
    \/ \E s \in Sessions : AnchorClick(s)
    \/ \E s \in Sessions : AnchorSend(s)
    \/ \E tx \in pending, status \in {"success", "reverted"} : Mine(tx, status)
    \/ \E s \in Sessions : AnchorReceipt(s)
    \/ \E s \in Sessions : AnchorTimeout(s)
    \/ \E s \in Sessions : Verify(s)
    \/ \E s \in Sessions : TamperDemo(s)

Spec == Init /\ [][Next]_vars

\* One session, any configuration, any sample file.
InitInput == InitWith(Configs)

NextInput ==
    \/ Startup
    \/ \E f \in SampleFiles : Upload("s1", f)
    \/ AnchorClick("s1")
    \/ AnchorSend("s1")
    \/ \E tx \in pending, status \in {"success", "reverted"} : Mine(tx, status)
    \/ AnchorReceipt("s1")
    \/ AnchorTimeout("s1")
    \/ Verify("s1")
    \/ TamperDemo("s1")

SpecInput == InitInput /\ [][NextInput]_vars
(***************************************************************************)
(* Claims about the protocol                                               *)
(***************************************************************************)
\* Session s has just been answered by handler op, without an exception.
Answered(s, op) == last.op = op /\ last.sess = s /\ last.err = ""

\* C1: round trip: an anchor of D that completed (anchor_hash returned its
\* receipt), followed by a verify of D with no other ledger write in between,
\* returns (true, digest of D).
C1_RoundTrip ==
    \A s \in Sessions :
        (Answered(s, "verify") /\ roundtrip[s].stage = "returned") =>
            (last.verified /\ last.onchain = dataset_hash[s])

\* C2: tamper detection: the tamper demo run after a confirmed anchor of D
\* returns (false, digest of D): the tampered dataset is never verified.
C2_TamperDetected ==
    \A s \in Sessions :
        (/\ last.op = "tamper"
         /\ last.sess = s
         /\ roundtrip[s].stage = "returned"
         /\ roundtrip[s].status = "success") =>
            (/\ last.err = ""
             /\ ~last.verified
             /\ last.onchain = dataset_hash[s])

\* A ledger call (read or write) has been issued for the file session s holds.
LedgerCallFor(s) == pc[s] # "idle" \/ (last.sess = s /\ last.calls # {})

\* C4: a dataset with duplicate column names or ragged rows makes the operation
\* fail (no digest) and no ledger call is performed for it.
C4_MalformedRejected ==
    \A s \in Sessions :
        Malformed(uploaded_file[s]) => (dataset_hash[s] = "" /\ ~LedgerCallFor(s))

\* C5: interleaved anchors never end in an unhandled nonce conflict: the client
\* serialises the writes or retries, so no anchor fails on its nonce.
C5_NonceConflictHandled == ~(last.op = "anchor" /\ last.err = "NonceError")

\* C6: anchor returns a receipt only for a write that was stored: whenever the
\* handler reports 'Anchored successfully', the transaction succeeded, and a
\* reverted transaction gives the caller an error.
C6_ReceiptMeansStored ==
    (last.op = "anchor" /\ (last.msg = "Anchored successfully" \/ last.err = "")) =>
        last.receipt = "success"

\* C7 as written: a value stored under a dataset name never changes again.
C7_Immutable ==
    [][\A n \in DOMAIN ledger : getHash(ledger', n) = ledger[n]]_vars

\* The digests of the sample files.
Digests ==
    {deterministic_hash_dataframe(read_csv(f)) :
        f \in {g \in SampleFiles : read_csv(g).ok}}

\* C7 amended: an anchor record is never deleted: a stored fingerprint stays a
\* fingerprint, and the value under a name changes only when an anchor's
\* storeHash transaction is mined, to the digest that anchor submitted under
\* "sales_data"; verify and the tamper demo never change it.
C7_OverwriteOnly ==
    [][/\ DOMAIN ledger \subseteq DOMAIN ledger'
       /\ \A n \in DOMAIN ledger : ledger[n] # "" => ledger'[n] # ""
       /\ \A n \in DOMAIN ledger' :
             ledger'[n] # getHash(ledger, n) =>
                /\ n = "sales_data"
                /\ ledger'[n] \in Digests
                /\ \E tx \in pending :
                      tx \notin pending' /\ tx.name = n /\ tx.value = ledger'[n]]_vars

\* C7 witness: a second anchor has overwritten the record, and a verify followed.
C7_Witness ==
    /\ getHash(ledger, "sales_data") # ""
    /\ txcount >= 2
    /\ \E s \in Sessions :
          /\ roundtrip[s] = [stage |-> "returned", status |-> "success"]
          /\ Answered(s, "verify")
          /\ last.verified

\* C8: with any of the four options missing or malformed the process stops at
\* startup: it never hashes a dataset and never issues a ledger read or write.
C8_BadConfigStops ==
    (\E k \in DOMAIN config : config[k] # "ok") =>
        \A s \in Sessions : dataset_hash[s] = "" /\ ~LedgerCallFor(s)

\* C9: the Mini-EDA is shown only by a verify run in which verify_hash returned
\* true, that is, in which the hash read from the ledger under "sales_data"
\* equals the digest of the session's dataset; a mismatch shows the on-chain
\* hash and no EDA.
C9_EdaOnlyVerified ==
    /\ [](/\ last.eda =>
               /\ last.op = "verify"
               /\ last.verified
               /\ last.onchain = last.local
               /\ last.local = dataset_hash[last.sess]
               /\ last.local =
                     deterministic_hash_dataframe(read_csv(uploaded_file[last.sess]))
          /\ (last.op = "verify" /\ last.err = "" /\ last.onchain # last.local) =>
               (~last.eda /\ last.msg = "Mismatch"))
    /\ [][(last' # last /\ last'.eda) =>
             getHash(ledger, "sales_data") = dataset_hash[last'.sess]]_vars

\* C9 witness: a verify that matched and showed the EDA.
C9_Witness == last.op = "verify" /\ last.eda /\ last.verified
=============================================================================
